---- MODULE Spec2Model ----
(***************************************************************************)
(* Collection version store, credential lifecycle and user directory of    *)
(* goPricesBeta.                                                           *)
(*                                                                         *)
(* The persistent store is the postgres schema of userdata: the tables     *)
(* users.meta, users.sessions, users.resets, users.collectionContents and  *)
(* users.collectionHistory with their domains and UNIQUE constraints, and  *)
(* the plpgsql function add_card.  Every statement of add_card is one      *)
(* atomic step of the calling connection; concurrent connections           *)
(* interleave between statements.                                          *)
(*                                                                         *)
(* The user directory is the UserManager of package UserStructs: its maps  *)
(* in memory, the write of a User to persistent storage, and the exported  *)
(* calls, each a sequence of steps between which other calls run.          *)
(***************************************************************************)
EXTENDS Integers, Sequences, FiniteSets, TLC

(***************************************************************************)
(* Bounds of the model.                                                    *)
(***************************************************************************)
NumCalls == 2
MaxTime == 2

MaxNow == 2
MaxSessions == 2

Calls == 1..NumCalls
Times == 1..MaxTime

(***************************************************************************)
(* The opaque keys the generator can draw.                                 *)
(***************************************************************************)
SessionKeys == {"k1", "k2"}

(***************************************************************************)
(* User names, and the length of each as postgres LENGTH() counts it.      *)
(***************************************************************************)
UserNames == {"alice", "bob", "name of 256 characters"}

TextLength(text) ==
    CASE text = "alice" -> 5
      [] text = "bob" -> 3
      [] text = "name of 256 characters" -> 256
      [] text = "name of 280 characters" -> 280
      [] text = "alice@example.org" -> 17
      [] text = "correct horse" -> 13
      [] text = "battery staple" -> 14
      [] text = "wrong" -> 5
      [] text = "foil" -> 4
      [] text = "binder1" -> 7
      [] text = "binder2" -> 7
      [] text = "Bolt" -> 4
      [] text = "LEA" -> 3
      [] text = "comment of 279 characters" -> 279
      [] text = "comment of 280 characters" -> 280
      [] text = "comment of 281 characters" -> 281
      [] text = "owner of 280 characters" -> 280
      [] text = "collection of 280 characters" -> 280
      [] text = "card name of 280 characters" -> 280
      [] text = "set name of 280 characters" -> 280
      [] OTHER -> 0

(***************************************************************************)
(* DOMAIN standardText: CHECK (LENGTH(VALUE) < 280).                       *)
(***************************************************************************)
standardTextLimit == 280

standardTextInclusive(text) == TextLength(text) <= standardTextLimit

standardText(text) == TextLength(text) < standardTextLimit

(***************************************************************************)
(* DOMAIN possibleQuality and DOMAIN possibleLanguage.                     *)
(***************************************************************************)
PossibleQualities == {"NM", "LP", "HP"}

PossibleLanguages == {"EN", "ZH-HANS", "ZH-HANT", "FR", "IT", "DE", "KO", "JA", "PT",
                      "RU", "ES"}

possibleQualityUnchecked(value) == TRUE

possibleQuality(value) == value \in PossibleQualities

possibleLanguage(value) == value \in PossibleLanguages

(***************************************************************************)
(* The user names AddSession and RequestReset take: the tests give them    *)
(* names of length < 256 and expect success, and a name of 256 characters  *)
(* (or a multiple) and expect an error.                                    *)
(***************************************************************************)
ephemeralNameLimit == 256

ephemeralNameUnchecked(name) == TRUE

ephemeralName(name) == TextLength(name) < ephemeralNameLimit

(***************************************************************************)
(* The horizon of a session and of a reset token, in ticks of the store's  *)
(* clock.  A default of users.resets.endValid lies one day before now().   *)
(***************************************************************************)
SessionHorizon == 2

ResetHorizon == 2

ResetDefaultLag == 1

ResetKeys == {"r1", "r2"}

RetentionMargin == 0

(***************************************************************************)
(* The UserManager: request-handling workers, and the arguments the        *)
(* callers pass.  Names, emails and passwords longer than fieldLength are  *)
(* refused by AddUser.                                                     *)
(***************************************************************************)
NumWorkers == 2

Workers == 1..NumWorkers

fieldLength == 200

ManagerNames == {"alice", "name of 256 characters"}
Emails == {"alice@example.org"}
Passwords == {"correct horse", "battery staple", "wrong"}
NewPasswords == {"battery staple"}
ManagerKeys == {"s1", "s2"}
ManagerCollections == {"binder1", "binder2"}
MaxCollectionsArgs == {1, 2}
PermissionArgs == {<<TRUE, FALSE, FALSE>>, <<FALSE, FALSE, FALSE>>}

PublicSessionKey == "public"
SessionArgs == ManagerKeys \cup {PublicSessionKey}

Trades == {"trade1"}
MaxTrades == 1

NoRequest == [name |-> "", email |-> "", password |-> "", maxCollections |-> 0,
              collName |-> "", session |-> ""]

(***************************************************************************)
(* Argument values of add_card.  Three identity keys: two in one           *)
(* collection that differ in quality only, and one in a second collection; *)
(* two pairs of comment and quantity.                                      *)
(* Timestamps are ticks of the caller's clock.                             *)
(***************************************************************************)
Owners == {"alice"}
CollectionNames == {"binder1", "binder2"}
CardNames == {"Bolt"}
SetNames == {"LEA"}
Comments == {"", "foil"}
Quantities == {1, 4}
Languages == {"EN"}

CollectionAndQuality == {<<"binder1", "NM">>, <<"binder1", "LP">>, <<"binder2", "NM">>}
CommentAndQuantity == {<<"", 4>>, <<"foil", 1>>}

CardArgs == {a \in [owner : Owners, collection : CollectionNames,
                    cardName : CardNames, setName : SetNames,
                    comment : Comments, quantity : Quantities,
                    quality : {"NM", "LP"}, lang : Languages,
                    lastUpdate : Times] :
                /\ <<a.collection, a.quality>> \in CollectionAndQuality
                /\ <<a.comment, a.quantity>> \in CommentAndQuantity}

(***************************************************************************)
(* Argument values at the edges of the column domains: one entry, and the  *)
(* entries that differ from it in one field, a comment of 279, 280 or 281  *)
(* characters, another text field of 280 characters, a quality or a        *)
(* language outside its enumeration.                                       *)
(***************************************************************************)
PlainArgs(time) ==
    [owner |-> "alice", collection |-> "binder1", cardName |-> "Bolt", setName |-> "LEA",
     comment |-> "foil", quantity |-> 1, quality |-> "NM", lang |-> "EN",
     lastUpdate |-> time]

EdgeArgs ==
    UNION {{PlainArgs(t),
            [PlainArgs(t) EXCEPT !.comment = "comment of 279 characters"],
            [PlainArgs(t) EXCEPT !.comment = "comment of 280 characters"],
            [PlainArgs(t) EXCEPT !.comment = "comment of 281 characters"],
            [PlainArgs(t) EXCEPT !.owner = "owner of 280 characters"],
            [PlainArgs(t) EXCEPT !.collection = "collection of 280 characters"],
            [PlainArgs(t) EXCEPT !.cardName = "card name of 280 characters"],
            [PlainArgs(t) EXCEPT !.setName = "set name of 280 characters"],
            [PlainArgs(t) EXCEPT !.quality = "MINT"],
            [PlainArgs(t) EXCEPT !.lang = "XX"]} : t \in Times}

NoArgs == [owner |-> "", collection |-> "", cardName |-> "", setName |-> "",
           comment |-> "", quantity |-> 0, quality |-> "NM", lang |-> "EN",
           lastUpdate |-> 0]

VARIABLES
    collectionContents,   \* rows of users.collectionContents, in heap order
    collectionHistory,    \* rows of users.collectionHistory, in append order
    pc,                   \* position of every ApplyEntry call
    args,                 \* arguments of every ApplyEntry call
    result,               \* outcome of every ApplyEntry call
    lastWriter,           \* per identity key, the call whose content write was applied last
    retries,              \* per call, the unique_violations its INSERT raised
    inFlight,             \* per call, the calls that were in progress when it was submitted
    fresh                 \* per call, whether its identity key had no content row when it was submitted

entryVars == <<collectionContents, collectionHistory, pc, args, result, lastWriter,
               retries, inFlight, fresh>>

VARIABLES
    sessions,             \* rows of users.sessions, in heap order
    now,                  \* the clock of the store
    issued,               \* every (name, key, time) AddSession has returned
    loggedOut,            \* every (name, key) of an issued session that Logout was called with
    lastAuth              \* the latest SessionAuth call and its outcome

sessionVars == <<sessions, now, issued, loggedOut, lastAuth>>

VARIABLES
    meta,                 \* names of the rows of users.meta
    resets,               \* rows of users.resets, in heap order
    refused,              \* every (operation, name, error) of a call the credential store refused
    resetIssued,          \* every (name, key, time) RequestReset has returned
    validated             \* per (name, key), the ValidateReset calls that succeeded

resetVars == <<meta, resets, refused, resetIssued, validated>>

credentialVars == <<sessionVars, resetVars>>

VARIABLES
    users,                \* aManager.users: the User of every name in memory
    EmailsToUserNames,    \* aManager.EmailsToUserNames
    userNameList,         \* aManager.UserNames, the names recorded for bookkeeping
    storage,               \* the User of every name in persistent storage
    at,                   \* position of every worker within the call it runs
    req                   \* arguments of the call every worker runs

VARIABLES
    userLock,             \* aManager.userLock: the worker that holds it, 0 when free
    emailLock,            \* aManager.emailLock
    nameLock              \* aManager.nameLock

lockVars == <<userLock, emailLock, nameLock>>

directoryVars == <<users, EmailsToUserNames, userNameList, storage, at, req, lockVars>>

vars == <<entryVars, credentialVars, directoryVars>>

(***************************************************************************)
(* Rows and keys.                                                          *)
(***************************************************************************)
ContentsKey(r) == <<r.owner, r.collection, r.cardName, r.setName, r.quality, r.lang>>

HistoryKey(r) == <<r.owner, r.collection, r.cardName, r.setName, r.quality, r.lang,
                   r.lastUpdate>>

IdentityKeys == {ContentsKey(a) : a \in CardArgs}

RowsOf(tbl, k) == {i \in DOMAIN tbl : ContentsKey(tbl[i]) = k}

(***************************************************************************)
(* CONSTRAINT uniqueContentsKey: an insert whose key a row already holds   *)
(* raises unique_violation.                                                *)
(***************************************************************************)
uniqueContentsKeyDropped(tbl, row) == FALSE

uniqueContentsKey(tbl, row) == \E i \in DOMAIN tbl : ContentsKey(tbl[i]) = ContentsKey(row)

(***************************************************************************)
(* CONSTRAINT uniqueHistoryKey: the identity key together with lastUpdate. *)
(***************************************************************************)
uniqueHistoryKeyDropped(tbl, row) == FALSE

uniqueHistoryKey(tbl, row) == \E i \in DOMAIN tbl : HistoryKey(tbl[i]) = HistoryKey(row)

(***************************************************************************)
(* The UPDATE statement of add_card: every row matching the identity key   *)
(* takes the comment, quantity and lastUpdate of the call.                 *)
(***************************************************************************)
UpdateFoundNever(tbl, a) == FALSE

UpdateFound(tbl, a) == RowsOf(tbl, ContentsKey(a)) # {}

UpdateContentsAccumulating(tbl, a) ==
    [i \in DOMAIN tbl |->
        IF ContentsKey(tbl[i]) = ContentsKey(a)
        THEN [tbl[i] EXCEPT !.comment = a.comment,
                            !.quantity = tbl[i].quantity + a.quantity,
                            !.lastUpdate = a.lastUpdate]
        ELSE tbl[i]]

UpdateContents(tbl, a) ==
    [i \in DOMAIN tbl |->
        IF ContentsKey(tbl[i]) = ContentsKey(a)
        THEN [tbl[i] EXCEPT !.comment = a.comment,
                            !.quantity = a.quantity,
                            !.lastUpdate = a.lastUpdate]
        ELSE tbl[i]]

(***************************************************************************)
(* The text columns of users.collectionContents and                        *)
(* users.collectionHistory are of DOMAIN standardText.                     *)
(***************************************************************************)
TextFields(r) == {r.owner, r.collection, r.cardName, r.setName, r.comment}

standardTextRow(r) == \A text \in TextFields(r) : standardText(text)

(***************************************************************************)
(* The INSERT statement of add_card.                                       *)
(***************************************************************************)
InsertContents(tbl, a) == Append(tbl, a)

(***************************************************************************)
(* The ledger takes INSERTs only: usermanager is granted select and insert *)
(* on users.collectionHistory, neither update nor delete.                  *)
(***************************************************************************)
InsertHistoryReplacing(tbl, a) ==
    Append(SelectSeq(tbl, LAMBDA r : ContentsKey(r) # ContentsKey(a)), a)

InsertHistoryTwice(tbl, a) == Append(Append(tbl, a), a)

InsertHistory(tbl, a) == Append(tbl, a)

(***************************************************************************)
(* CONSTRAINT uniqueSessionKey UNIQUE (sessionKey, name).                  *)
(***************************************************************************)
uniqueSessionKeyDropped(tbl, row) == FALSE

uniqueSessionKey(tbl, row) ==
    \E i \in DOMAIN tbl : tbl[i].sessionKey = row.sessionKey /\ tbl[i].name = row.name

(***************************************************************************)
(* The session row AddSession inserts: valid from now to the horizon.      *)
(***************************************************************************)
NewSessionRow(name, key, time) ==
    [name |-> name, sessionKey |-> key, startValid |-> time,
     endValid |-> time + SessionHorizon]

(***************************************************************************)
(* SessionAuth: exactly one row of the name and key is within its window,  *)
(* startValid <= now < endValid.                                           *)
(***************************************************************************)
InWindow(row, time) == row.startValid <= time /\ time < row.endValid

SessionAuth(name, key) ==
    Cardinality({i \in DOMAIN sessions : /\ sessions[i].name = name
                                         /\ sessions[i].sessionKey = key
                                         /\ InWindow(sessions[i], now)}) = 1

(***************************************************************************)
(* Logout: the window of the matching rows is narrowed to end now; a row   *)
(* that already ended is left as it is.                                    *)
(***************************************************************************)
NarrowSessionsToNow(tbl, name, key, time) ==
    [i \in DOMAIN tbl |->
        IF tbl[i].name = name /\ tbl[i].sessionKey = key
        THEN [tbl[i] EXCEPT !.endValid = time]
        ELSE tbl[i]]

NarrowSessions(tbl, name, key, time) ==
    [i \in DOMAIN tbl |->
        IF tbl[i].name = name /\ tbl[i].sessionKey = key /\ tbl[i].endValid > time
        THEN [tbl[i] EXCEPT !.endValid = time]
        ELSE tbl[i]]

NoAuth == [name |-> "", key |-> "", ok |-> FALSE]

Init ==
    /\ users = <<>>
    /\ EmailsToUserNames = <<>>
    /\ userNameList = <<>>
    /\ storage = <<>>
    /\ at = [w \in Workers |-> "idle"]
    /\ req = [w \in Workers |-> NoRequest]
    /\ userLock = 0
    /\ emailLock = 0
    /\ nameLock = 0
    /\ meta = {}
    /\ resets = <<>>
    /\ refused = {}
    /\ resetIssued = {}
    /\ validated = [nk \in UserNames \X ResetKeys |-> 0]
    /\ sessions = <<>>
    /\ now = 0
    /\ issued = {}
    /\ loggedOut = {}
    /\ lastAuth = NoAuth
    /\ collectionContents = <<>>
    /\ collectionHistory = <<>>
    /\ pc = [p \in Calls |-> "idle"]
    /\ args = [p \in Calls |-> NoArgs]
    /\ result = [p \in Calls |-> "none"]
    /\ lastWriter = [k \in IdentityKeys |-> 0]
    /\ retries = [p \in Calls |-> 0]
    /\ inFlight = [p \in Calls |-> {}]
    /\ fresh = [p \in Calls |-> FALSE]

(***************************************************************************)
(* A caller submits ApplyEntry.  Calls are numbered in the order they are  *)
(* submitted.  specQuality and specLang are parameters of the domains      *)
(* possibleQuality and possibleLanguage: a value outside the enumeration   *)
(* fails the call before the body of add_card runs.                        *)
(***************************************************************************)
Submit(p, a) ==
    /\ pc[p] = "idle"
    /\ \A q \in Calls : q < p => pc[q] # "idle"
    /\ args' = [args EXCEPT ![p] = a]
    /\ fresh' = [fresh EXCEPT ![p] = ~UpdateFound(collectionContents, a)]
    /\ IF possibleQuality(a.quality) /\ possibleLanguage(a.lang)
       THEN /\ pc' = [pc EXCEPT ![p] = "update"]
            /\ UNCHANGED result
       ELSE /\ pc' = [pc EXCEPT ![p] = "done"]
            /\ result' = [result EXCEPT ![p] = "InvalidField"]
    /\ inFlight' = [inFlight EXCEPT ![p] = {q \in Calls : pc[q] \notin {"idle", "done"}}]
    /\ UNCHANGED <<collectionContents, collectionHistory, lastWriter, retries>>
    /\ UNCHANGED <<credentialVars, directoryVars>>

Begin(p) == \E a \in CardArgs : Submit(p, a)

BeginEdge(p) == \E a \in EdgeArgs : Submit(p, a)

(***************************************************************************)
(* add_card, first statement of the loop: UPDATE ... ; IF found THEN       *)
(* RETURN.  The comment column is a standardText: a comment the domain     *)
(* rejects fails the statement, and the function with it.                  *)
(***************************************************************************)
AddCardUpdate(p) ==
    /\ pc[p] = "update"
    /\ IF UpdateFound(collectionContents, args[p])
       THEN IF standardText(args[p].comment)
            THEN /\ collectionContents' = UpdateContents(collectionContents, args[p])
                 /\ lastWriter' = [lastWriter EXCEPT ![ContentsKey(args[p])] = p]
                 /\ pc' = [pc EXCEPT ![p] = "history"]
                 /\ UNCHANGED result
            ELSE /\ pc' = [pc EXCEPT ![p] = "done"]
                 /\ result' = [result EXCEPT ![p] = "InvalidField"]
                 /\ UNCHANGED <<collectionContents, lastWriter>>
       ELSE /\ pc' = [pc EXCEPT ![p] = "insert"]
            /\ UNCHANGED <<collectionContents, lastWriter, result>>
    /\ UNCHANGED <<collectionHistory, args, retries, inFlight, fresh>>
    /\ UNCHANGED <<credentialVars, directoryVars>>

(***************************************************************************)
(* add_card, second statement: INSERT ... ; RETURN, or on                  *)
(* unique_violation loop to the UPDATE again.  The five text columns are   *)
(* standardText; the violation of a domain check is no unique_violation    *)
(* and ends the function with the error.                                   *)
(***************************************************************************)
AddCardInsert(p) ==
    /\ pc[p] = "insert"
    /\ IF ~standardTextRow(args[p])
       THEN /\ pc' = [pc EXCEPT ![p] = "done"]
            /\ result' = [result EXCEPT ![p] = "InvalidField"]
            /\ UNCHANGED <<collectionContents, lastWriter, retries>>
       ELSE IF uniqueContentsKey(collectionContents, args[p])
       THEN /\ pc' = [pc EXCEPT ![p] = "update"]
            /\ retries' = [retries EXCEPT ![p] = @ + 1]
            /\ UNCHANGED <<collectionContents, lastWriter, result>>
       ELSE /\ collectionContents' = InsertContents(collectionContents, args[p])
            /\ lastWriter' = [lastWriter EXCEPT ![ContentsKey(args[p])] = p]
            /\ pc' = [pc EXCEPT ![p] = "history"]
            /\ UNCHANGED <<retries, result>>
    /\ UNCHANGED <<collectionHistory, args, inFlight, fresh>>
    /\ UNCHANGED <<credentialVars, directoryVars>>

(***************************************************************************)
(* The history append that follows a successful add_card, and the return   *)
(* of ApplyEntry.  A row the ledger's unique key rejects is an error.      *)
(***************************************************************************)
AppendHistory(p) ==
    /\ pc[p] = "history"
    /\ IF uniqueHistoryKey(collectionHistory, args[p])
       THEN /\ result' = [result EXCEPT ![p] = "error"]
            /\ UNCHANGED collectionHistory
       ELSE /\ collectionHistory' = InsertHistory(collectionHistory, args[p])
            /\ result' = [result EXCEPT ![p] = "ok"]
    /\ pc' = [pc EXCEPT ![p] = "done"]
    /\ UNCHANGED <<collectionContents, args, lastWriter, retries, inFlight, fresh>>
    /\ UNCHANGED <<credentialVars, directoryVars>>

Next ==
    \E p \in Calls :
        \/ Begin(p)
        \/ AddCardUpdate(p)
        \/ AddCardInsert(p)
        \/ AppendHistory(p)

Spec == Init /\ [][Next]_vars

(***************************************************************************)
(* A call that was submitted is run to its end: the statement it is at is  *)
(* executed sooner or later.  The store makes no such promise for the      *)
(* arrival of further calls.                                               *)
(***************************************************************************)
Proceed(p) == AddCardUpdate(p) \/ AddCardInsert(p) \/ AppendHistory(p)

Fairness == \A p \in Calls : WF_vars(Proceed(p))

SpecTermination == Init /\ [][Next]_vars /\ Fairness

(***************************************************************************)
(* ApplyEntry with arguments at the edges of the column domains.           *)
(***************************************************************************)
NextEdge ==
    \E p \in Calls :
        \/ BeginEdge(p)
        \/ AddCardUpdate(p)
        \/ AddCardInsert(p)
        \/ AppendHistory(p)

SpecEdge == Init /\ [][NextEdge]_vars

(***************************************************************************)
(* The credential store.                                                   *)
(***************************************************************************)
Tick ==
    /\ now < MaxNow
    /\ now' = now + 1
    /\ UNCHANGED <<sessions, issued, loggedOut, lastAuth>>
    /\ UNCHANGED resetVars
    /\ UNCHANGED <<entryVars, directoryVars>>

(***************************************************************************)
(* AddSession(name): a name beyond the length bound is refused before the  *)
(* store is touched; otherwise a random key is drawn, again on a           *)
(* uniqueSessionKey conflict, and the row is inserted.  users.meta is not  *)
(* consulted: the tests add sessions for names nobody registered.          *)
(***************************************************************************)
AddSessionRefusalUnknownUser(name) ==
    IF ~ephemeralName(name) THEN "InvalidField"
    ELSE IF name \notin meta THEN "UnknownUser"
    ELSE "none"

AddSessionRefusal(name) ==
    IF ~ephemeralName(name) THEN "InvalidField" ELSE "none"

Refusal(op, name, error) == [op |-> op, name |-> name, error |-> error]

AddSession(name) ==
    /\ IF AddSessionRefusal(name) # "none"
       THEN /\ refused' = refused \cup {Refusal("AddSession", name, AddSessionRefusal(name))}
            /\ UNCHANGED <<sessions, issued>>
       ELSE /\ \E key \in SessionKeys :
                    /\ Len(sessions) < MaxSessions
                    /\ ~uniqueSessionKey(sessions, NewSessionRow(name, key, now))
                    /\ sessions' = Append(sessions, NewSessionRow(name, key, now))
                    /\ issued' = issued \cup {[name |-> name, key |-> key, at |-> now]}
            /\ UNCHANGED refused
    /\ UNCHANGED <<now, loggedOut, lastAuth>>
    /\ UNCHANGED <<meta, resets, resetIssued, validated>>
    /\ UNCHANGED <<entryVars, directoryVars>>

SessionAuthCall(name, key) ==
    /\ lastAuth' = [name |-> name, key |-> key, ok |-> SessionAuth(name, key)]
    /\ UNCHANGED <<sessions, now, issued, loggedOut>>
    /\ UNCHANGED resetVars
    /\ UNCHANGED <<entryVars, directoryVars>>

Logout(name, key) ==
    /\ sessions' = NarrowSessions(sessions, name, key, now)
    /\ loggedOut' = IF \E i \in issued : i.name = name /\ i.key = key
                    THEN loggedOut \cup {<<name, key>>}
                    ELSE loggedOut
    /\ UNCHANGED <<now, issued, lastAuth>>
    /\ UNCHANGED resetVars
    /\ UNCHANGED <<entryVars, directoryVars>>

NextSessions ==
    \/ Tick
    \/ \E name \in UserNames : AddSession(name)
    \/ \E name \in UserNames, key \in SessionKeys : SessionAuthCall(name, key)
    \/ \E name \in UserNames, key \in SessionKeys : Logout(name, key)

SpecSessions == Init /\ [][NextSessions]_vars

(***************************************************************************)
(* users.meta: CONSTRAINT uniquename UNIQUE (name), and name a             *)
(* standardText.  A signup inserts the row of a name.                      *)
(***************************************************************************)
uniquename(tbl, name) == name \in tbl

RegisterUser(name) ==
    /\ standardText(name)
    /\ ~uniquename(meta, name)
    /\ meta' = meta \cup {name}
    /\ UNCHANGED <<resets, refused, resetIssued, validated>>
    /\ UNCHANGED sessionVars
    /\ UNCHANGED <<entryVars, directoryVars>>

(***************************************************************************)
(* CONSTRAINT uniqueResetKey UNIQUE (resetKey, name).                      *)
(***************************************************************************)
uniqueResetKey(tbl, row) ==
    \E i \in DOMAIN tbl : tbl[i].resetKey = row.resetKey /\ tbl[i].name = row.name

(***************************************************************************)
(* The row RequestReset inserts.  The column defaults of users.resets      *)
(* would give a window that ended a day before it started; the row of an   *)
(* issued token is open from now to the horizon.                           *)
(***************************************************************************)
DefaultResetRow(name, key, time) ==
    [name |-> name, resetKey |-> key, startValid |-> time,
     endValid |-> time - ResetDefaultLag]

NewResetRow(name, key, time) ==
    [name |-> name, resetKey |-> key, startValid |-> time,
     endValid |-> time + ResetHorizon]

(***************************************************************************)
(* The rows ValidateReset matches: those of the name and key whose window  *)
(* holds now.  The token is good when exactly one row matches.             *)
(***************************************************************************)
ResetRows(tbl, name, key, time) ==
    {i \in DOMAIN tbl : /\ tbl[i].name = name
                         /\ tbl[i].resetKey = key
                         /\ InWindow(tbl[i], time)}

ResetValid(name, key) == Cardinality(ResetRows(resets, name, key, now)) = 1

(***************************************************************************)
(* A validated token is spent: its row is deleted in the statement that    *)
(* validates it (usermanager holds select, insert and delete on            *)
(* users.resets, no update).                                               *)
(***************************************************************************)
KeepResets(tbl, name, key) == tbl

DeleteResets(tbl, name, key) ==
    SelectSeq(tbl, LAMBDA r : ~(r.name = name /\ r.resetKey = key))

(***************************************************************************)
(* RequestReset(name): the length check of AddSession, then a key the      *)
(* generator has not returned for the name before, and the insert.         *)
(***************************************************************************)
RequestReset(name) ==
    /\ IF ~ephemeralName(name)
       THEN /\ refused' = refused \cup {Refusal("RequestReset", name, "InvalidField")}
            /\ UNCHANGED <<resets, resetIssued>>
       ELSE /\ \E key \in ResetKeys :
                    /\ \A i \in resetIssued : i.name = name => i.key # key
                    /\ ~uniqueResetKey(resets, NewResetRow(name, key, now))
                    /\ resets' = Append(resets, NewResetRow(name, key, now))
                    /\ resetIssued' = resetIssued
                                        \cup {[name |-> name, key |-> key, at |-> now]}
            /\ UNCHANGED refused
    /\ UNCHANGED <<meta, validated>>
    /\ UNCHANGED sessionVars
    /\ UNCHANGED <<entryVars, directoryVars>>

(***************************************************************************)
(* ValidateReset(name, key): one statement that checks the token and       *)
(* spends it.                                                              *)
(***************************************************************************)
ValidateResetCall(name, key) ==
    /\ IF ResetValid(name, key)
       THEN /\ resets' = DeleteResets(resets, name, key)
            /\ validated' = [validated EXCEPT ![<<name, key>>] = @ + 1]
            /\ UNCHANGED refused
       ELSE UNCHANGED <<resets, validated, refused>>
    /\ UNCHANGED <<meta, resetIssued>>
    /\ UNCHANGED sessionVars
    /\ UNCHANGED <<entryVars, directoryVars>>

(***************************************************************************)
(* Issuance: signups, sessions and reset tokens for registered and         *)
(* unregistered names.                                                     *)
(***************************************************************************)
NextIssuance ==
    \/ \E name \in UserNames : RegisterUser(name)
    \/ \E name \in UserNames : AddSession(name)
    \/ \E name \in UserNames : RequestReset(name)

SpecIssuance == Init /\ [][NextIssuance]_vars

(***************************************************************************)
(* The life of reset tokens.                                               *)
(***************************************************************************)
NextResets ==
    \/ Tick
    \/ \E name \in UserNames : RequestReset(name)
    \/ \E name \in UserNames, key \in ResetKeys : ValidateResetCall(name, key)

SpecResets == Init /\ [][NextResets]_vars

(***************************************************************************)
(* Sweep: one DELETE on users.sessions and one on users.resets, of the     *)
(* rows whose window never opened (endValid <= startValid) or ended the    *)
(* retention margin ago.                                                   *)
(***************************************************************************)
ElapsedSinceStart(row, time) ==
    row.endValid <= row.startValid \/ row.startValid + RetentionMargin <= time

Elapsed(row, time) ==
    row.endValid <= row.startValid \/ row.endValid + RetentionMargin <= time

SweepRows(tbl, time) == SelectSeq(tbl, LAMBDA r : ~Elapsed(r, time))

SweepSessions ==
    /\ sessions' = SweepRows(sessions, now)
    /\ UNCHANGED <<now, issued, loggedOut, lastAuth>>
    /\ UNCHANGED resetVars
    /\ UNCHANGED <<entryVars, directoryVars>>

SweepResets ==
    /\ resets' = SweepRows(resets, now)
    /\ UNCHANGED <<meta, refused, resetIssued, validated>>
    /\ UNCHANGED sessionVars
    /\ UNCHANGED <<entryVars, directoryVars>>

(***************************************************************************)
(* The sweep among issuance, validation and revocation of the credentials  *)
(* of one user.                                                            *)
(***************************************************************************)
SweptNames == {"alice"}

NextSweep ==
    \/ Tick
    \/ \E name \in SweptNames : AddSession(name)
    \/ \E name \in SweptNames, key \in SessionKeys : Logout(name, key)
    \/ \E name \in SweptNames : RequestReset(name)
    \/ \E name \in SweptNames, key \in ResetKeys : ValidateResetCall(name, key)
    \/ SweepSessions
    \/ SweepResets

SpecSweep == Init /\ [][NextSweep]_vars

(***************************************************************************)
(* The UserManager.  A User holds its email, its password (for the hash    *)
(* and nonce derived from it), its sessions, its collections and           *)
(* MaxCollections; a blank Collection has the default permissions and no   *)
(* trade.                                                                  *)
(***************************************************************************)
BlankCollection == [permissions |-> <<TRUE, FALSE, FALSE>>, trades |-> <<>>]

NoToken == ""

FreshUser(email, password, maxCollections, key) ==
    [Email |-> email, Password |-> password, MaxCollections |-> maxCollections,
     Collections |-> <<>>, Sessions |-> {key}, PasswordResetToken |-> NoToken]

userExists(name) == name \in DOMAIN users

emailUsed(email) == email \in DOMAIN EmailsToUserNames

authenticateUserOrPublic(name, session) ==
    name \in DOMAIN users /\ session \in users[name].Sessions \cup {PublicSessionKey}

authenticateUser(name, session) ==
    name \in DOMAIN users /\ session \in users[name].Sessions

(***************************************************************************)
(* getUserWithAuthentication(name, sessionKey, public): a public read asks *)
(* for the user only, anything else for a session of the user.             *)
(***************************************************************************)
getUserWithAuthentication(name, sessionKey, public) ==
    IF public THEN userExists(name) ELSE authenticateUser(name, sessionKey)

(***************************************************************************)
(* addCollection, under the lock of the User: the errors it can return     *)
(* for a name, none when the collection can be added, and the User with    *)
(* the blank collection added.  Which of the two errors a call gets to     *)
(* which both apply is not fixed.                                          *)
(***************************************************************************)
addCollectionErrorsUncounted(aUser, collName) ==
    IF collName \in DOMAIN aUser.Collections THEN {"AlreadyExists"} ELSE {}

addCollectionErrorsOverwriting(aUser, collName) ==
    IF Cardinality(DOMAIN aUser.Collections \ {collName}) >= aUser.MaxCollections
    THEN {"TooManyCollections"} ELSE {}

addCollectionErrors(aUser, collName) ==
    (IF Cardinality(DOMAIN aUser.Collections) >= aUser.MaxCollections
     THEN {"TooManyCollections"} ELSE {})
    \cup (IF collName \in DOMAIN aUser.Collections THEN {"AlreadyExists"} ELSE {})

addCollection(aUser, collName) ==
    [aUser EXCEPT !.Collections = (collName :> BlankCollection) @@ @]

(***************************************************************************)
(* userToStorage and userModified write the User as it is in memory to     *)
(* persistent storage, or fail and write nothing.                          *)
(***************************************************************************)
userToStorage(name) == (name :> users[name]) @@ storage

Finish(w) ==
    /\ at' = [at EXCEPT ![w] = "idle"]
    /\ req' = [req EXCEPT ![w] = NoRequest]

(***************************************************************************)
(* The workers are alike: the call that arrives is taken by the first idle *)
(* worker.                                                                 *)
(***************************************************************************)
Free(w) == at[w] = "idle" /\ \A v \in Workers : v < w => at[v] # "idle"

(***************************************************************************)
(* AddUser: the length check, userExists and emailUsed; what it returns at *)
(* once, or "" when it goes on.                                            *)
(***************************************************************************)
AddUserRefusal(name, email, password) ==
    IF \/ TextLength(name) > fieldLength
       \/ TextLength(email) > fieldLength
       \/ TextLength(password) > fieldLength
    THEN "TooLong"
    ELSE IF userExists(name) THEN "UserExists"
    ELSE IF emailUsed(email) THEN "EmailUsed"
    ELSE ""

AddUserCheck(w) ==
    /\ Free(w)
    /\ \E name \in ManagerNames, email \in Emails, maxCollections \in MaxCollectionsArgs :
        LET password == "correct horse" IN
        IF AddUserRefusal(name, email, password) # ""
        THEN UNCHANGED <<at, req>>
        ELSE /\ at' = [at EXCEPT ![w] = "AddUser:users"]
             /\ req' = [req EXCEPT ![w] =
                            [NoRequest EXCEPT !.name = name, !.email = email,
                                              !.password = password,
                                              !.maxCollections = maxCollections]]
    /\ UNCHANGED <<users, EmailsToUserNames, userNameList, storage>>
    /\ UNCHANGED <<entryVars, credentialVars, lockVars>>

(***************************************************************************)
(* The three locks of the manager.  Lock() is for a worker to take when    *)
(* nobody holds the lock; after the Unlock() of worker w nobody holds it.  *)
(***************************************************************************)
UnlockSkipped(w) == w

Unlock(w) == 0

Lock(lock, w) == lock = 0 /\ lock' = w

(***************************************************************************)
(* AddUser: aManager.users[name] = &aFreshUser.  The key of the first      *)
(* session is one newSession() drew.                                       *)
(***************************************************************************)
PutUser(w) ==
    /\ at[w] = "AddUser:users"
    /\ \E key \in ManagerKeys :
            users' = (req[w].name :> FreshUser(req[w].email, req[w].password,
                                              req[w].maxCollections, key)) @@ users
    /\ at' = [at EXCEPT ![w] = "AddUser:email"]
    /\ UNCHANGED <<EmailsToUserNames, userNameList, storage, req>>
    /\ UNCHANGED <<entryVars, credentialVars>>

(***************************************************************************)
(* AddUser: aManager.EmailsToUserNames[email] = name.                      *)
(***************************************************************************)
PutEmail(w) ==
    /\ at[w] = "AddUser:email"
    /\ EmailsToUserNames' = (req[w].email :> req[w].name) @@ EmailsToUserNames
    /\ at' = [at EXCEPT ![w] = "AddUser:store"]
    /\ UNCHANGED <<users, userNameList, storage, req>>
    /\ UNCHANGED <<entryVars, credentialVars>>

(***************************************************************************)
(* AddUser: the name is appended to aManager.UserNames and the key of the  *)
(* first session is returned.                                              *)
(***************************************************************************)
RecordName(w) ==
    /\ at[w] = "AddUser:names"
    /\ userNameList' = Append(userNameList, req[w].name)
    /\ Finish(w)
    /\ UNCHANGED <<users, EmailsToUserNames, storage>>
    /\ UNCHANGED <<entryVars, credentialVars>>

(***************************************************************************)
(* The three critical sections of AddUser, each as one step: the lock is   *)
(* free, and it is taken, the write done and the lock released before      *)
(* another worker takes a step.                                            *)
(***************************************************************************)
AddUserPut(w) == userLock = 0 /\ PutUser(w) /\ UNCHANGED lockVars

AddUserEmail(w) == emailLock = 0 /\ PutEmail(w) /\ UNCHANGED lockVars

AddUserRecord(w) == nameLock = 0 /\ RecordName(w) /\ UNCHANGED lockVars

(***************************************************************************)
(* AddUser: userToStorage, with no lock of the manager held; on an error   *)
(* AddUser returns it.                                                     *)
(***************************************************************************)
AddUserStore(w) ==
    /\ at[w] = "AddUser:store"
    /\ \/ /\ storage' = userToStorage(req[w].name)
          /\ at' = [at EXCEPT ![w] = "AddUser:names"]
          /\ UNCHANGED req
       \/ /\ Finish(w)
          /\ UNCHANGED storage
    /\ UNCHANGED <<users, EmailsToUserNames, userNameList>>
    /\ UNCHANGED <<entryVars, credentialVars, lockVars>>

(***************************************************************************)
(* The same critical sections lock by lock: Lock() as a step of its own,   *)
(* at which a worker waits while another holds the lock, then the write    *)
(* together with Unlock().  The Unlock of nameLock is deferred to the      *)
(* return, which follows the append.                                       *)
(***************************************************************************)
AddUserLockUsers(w) ==
    /\ at[w] = "AddUser:users"
    /\ userLock # w
    /\ Lock(userLock, w)
    /\ UNCHANGED <<users, EmailsToUserNames, userNameList, storage, at, req>>
    /\ UNCHANGED <<emailLock, nameLock>>
    /\ UNCHANGED <<entryVars, credentialVars>>

AddUserPutUnlock(w) ==
    /\ userLock = w
    /\ PutUser(w)
    /\ userLock' = Unlock(w)
    /\ UNCHANGED <<emailLock, nameLock>>

AddUserLockEmails(w) ==
    /\ at[w] = "AddUser:email"
    /\ emailLock # w
    /\ Lock(emailLock, w)
    /\ UNCHANGED <<users, EmailsToUserNames, userNameList, storage, at, req>>
    /\ UNCHANGED <<userLock, nameLock>>
    /\ UNCHANGED <<entryVars, credentialVars>>

AddUserEmailUnlock(w) ==
    /\ emailLock = w
    /\ PutEmail(w)
    /\ emailLock' = Unlock(w)
    /\ UNCHANGED <<userLock, nameLock>>

AddUserLockNames(w) ==
    /\ at[w] = "AddUser:names"
    /\ nameLock # w
    /\ Lock(nameLock, w)
    /\ UNCHANGED <<users, EmailsToUserNames, userNameList, storage, at, req>>
    /\ UNCHANGED <<userLock, emailLock>>
    /\ UNCHANGED <<entryVars, credentialVars>>

AddUserRecordUnlock(w) ==
    /\ nameLock = w
    /\ RecordName(w)
    /\ nameLock' = Unlock(w)
    /\ UNCHANGED <<userLock, emailLock>>

(***************************************************************************)
(* NewCollection: authenticateUser, then addCollection; the errors the     *)
(* call can return, none when the collection is added.                     *)
(***************************************************************************)
NewCollectionErrors(name, collName, session) ==
    IF ~authenticateUser(name, session)
    THEN {"InvalidCredential"}
    ELSE addCollectionErrors(users[name], collName)

NewCollectionCall(w, name, collName, session) ==
    /\ Free(w)
    /\ IF NewCollectionErrors(name, collName, session) # {}
       THEN UNCHANGED <<users, at, req>>
       ELSE /\ users' = [users EXCEPT ![name] = addCollection(@, collName)]
            /\ at' = [at EXCEPT ![w] = "NewCollection:userModified"]
            /\ req' = [req EXCEPT ![w] =
                           [NoRequest EXCEPT !.name = name, !.collName = collName]]
    /\ UNCHANGED <<EmailsToUserNames, userNameList, storage>>
    /\ UNCHANGED <<entryVars, credentialVars, lockVars>>

NewCollectionAdd(w) ==
    \E name \in ManagerNames, collName \in ManagerCollections, session \in SessionArgs :
        NewCollectionCall(w, name, collName, session)

(***************************************************************************)
(* NewCollection: aManager.userModified(name), its error dropped, and      *)
(* return err, the nil of addCollection.                                   *)
(***************************************************************************)
NewCollectionStore(w) ==
    /\ at[w] = "NewCollection:userModified"
    /\ \/ storage' = userToStorage(req[w].name)
       \/ UNCHANGED storage
    /\ Finish(w)
    /\ UNCHANGED <<users, EmailsToUserNames, userNameList>>
    /\ UNCHANGED <<entryVars, credentialVars, lockVars>>

(***************************************************************************)
(* SetPermissions: authenticateUser, setPermissions, and the return of     *)
(* userToStorage: nil when the User was written, its error when not.       *)
(***************************************************************************)
SetPermissionsErrors(name, collName, session) ==
    IF ~authenticateUser(name, session)
    THEN {"InvalidCredential"}
    ELSE IF collName \notin DOMAIN users[name].Collections
    THEN {"NoCollection"}
    ELSE {}

SetPermissionsCall(w, name, collName, session, permissions) ==
    /\ Free(w)
    /\ IF SetPermissionsErrors(name, collName, session) # {}
       THEN UNCHANGED <<users, storage>>
       ELSE /\ users' = [users EXCEPT ![name].Collections[collName].permissions =
                                           permissions]
            /\ \/ storage' = (name :> users'[name]) @@ storage
               \/ UNCHANGED storage
    /\ UNCHANGED <<EmailsToUserNames, userNameList, at, req>>
    /\ UNCHANGED <<entryVars, credentialVars, lockVars>>

SetPermissions(w) ==
    \E name \in ManagerNames, collName \in ManagerCollections, session \in SessionArgs,
       permissions \in PermissionArgs :
        SetPermissionsCall(w, name, collName, session, permissions)

(***************************************************************************)
(* AddTrade: getUserWithAuthentication with public = false, addTrade on    *)
(* the named collection, and the return of userToStorage.  A collection    *)
(* keeps its trades in the order they were added.                          *)
(***************************************************************************)
AddTradeErrors(name, collName, sessionKey) ==
    IF ~getUserWithAuthentication(name, sessionKey, FALSE)
    THEN {"InvalidCredential"}
    ELSE IF collName \notin DOMAIN users[name].Collections
    THEN {"NoCollection"}
    ELSE {}

AddTradeCall(w, name, collName, sessionKey, aTrade) ==
    /\ Free(w)
    /\ IF AddTradeErrors(name, collName, sessionKey) # {}
       THEN UNCHANGED <<users, storage>>
       ELSE /\ Len(users[name].Collections[collName].trades) < MaxTrades
            /\ users' = [users EXCEPT ![name].Collections[collName].trades =
                                           Append(@, aTrade)]
            /\ \/ storage' = (name :> users'[name]) @@ storage
               \/ UNCHANGED storage
    /\ UNCHANGED <<EmailsToUserNames, userNameList, at, req>>
    /\ UNCHANGED <<entryVars, credentialVars, lockVars>>

AddTrade(w) ==
    \E name \in ManagerNames, collName \in ManagerCollections, sessionKey \in SessionArgs,
       aTrade \in Trades :
        AddTradeCall(w, name, collName, sessionKey, aTrade)

(***************************************************************************)
(* GetNewSession: getUser and the password check; what the call returns at *)
(* once, none when it goes on to aUser.getNewSession().  A user is handed  *)
(* no more keys than newSession() has to draw.                             *)
(***************************************************************************)
GetNewSessionErrors(name, password) ==
    IF ~userExists(name) THEN {"InvalidUser"}
    ELSE IF users[name].Password # password THEN {"InvalidPassword"}
    ELSE {}

LoggingIn(name) == {v \in Workers : at[v] = "GetNewSession:getNewSession"
                                      /\ req[v].name = name}

GetNewSessionCheck(w) ==
    /\ Free(w)
    /\ \E name \in ManagerNames, password \in Passwords :
        IF GetNewSessionErrors(name, password) # {}
        THEN UNCHANGED <<at, req>>
        ELSE /\ Cardinality(users[name].Sessions) + Cardinality(LoggingIn(name))
                    < Cardinality(ManagerKeys)
             /\ at' = [at EXCEPT ![w] = "GetNewSession:getNewSession"]
             /\ req' = [req EXCEPT ![w] =
                            [NoRequest EXCEPT !.name = name, !.password = password]]
    /\ UNCHANGED <<users, EmailsToUserNames, userNameList, storage>>
    /\ UNCHANGED <<entryVars, credentialVars, lockVars>>

(***************************************************************************)
(* GetNewSession: aUser.getNewSession() adds a session to the User that    *)
(* getUser found, and its key is returned.  Nothing is written to storage. *)
(***************************************************************************)
getNewSession(aUser, key) == [aUser EXCEPT !.Sessions = @ \cup {key}]

GetNewSessionAdd(w) ==
    /\ at[w] = "GetNewSession:getNewSession"
    /\ \E key \in ManagerKeys \ users[req[w].name].Sessions :
            users' = [users EXCEPT ![req[w].name] = getNewSession(@, key)]
    /\ Finish(w)
    /\ UNCHANGED <<EmailsToUserNames, userNameList, storage>>
    /\ UNCHANGED <<entryVars, credentialVars, lockVars>>

(***************************************************************************)
(* GetPasswordResetToken: getUser, aUser.getResetToken(), the mail with    *)
(* the token, and userModified.  The token is latched in memory whether    *)
(* or not the mail and the write that follow succeed.                      *)
(***************************************************************************)
getResetToken(aUser, key) == [aUser EXCEPT !.PasswordResetToken = key]

GetPasswordResetToken(w) ==
    /\ Free(w)
    /\ \E name \in ManagerNames :
        IF ~userExists(name)
        THEN UNCHANGED <<users, storage>>
        ELSE /\ \E key \in ResetKeys :
                    users' = [users EXCEPT ![name] = getResetToken(@, key)]
             /\ \/ storage' = (name :> users'[name]) @@ storage
                \/ UNCHANGED storage
    /\ UNCHANGED <<EmailsToUserNames, userNameList, at, req>>
    /\ UNCHANGED <<entryVars, credentialVars, lockVars>>

(***************************************************************************)
(* ChangePassword: getUser and aUser.changePassword(resetToken,            *)
(* newPassword); both failures return the same error.  changePassword on   *)
(* the token the user holds sets the password, spends the token and        *)
(* leaves a fresh session as the only session of the user.                 *)
(***************************************************************************)
ChangePasswordErrors(name, resetToken) ==
    IF ~userExists(name) THEN {"InvalidResetToken"}
    ELSE IF users[name].PasswordResetToken = NoToken
            \/ users[name].PasswordResetToken # resetToken
    THEN {"InvalidResetToken"}
    ELSE {}

changePassword(aUser, newPassword, key) ==
    [aUser EXCEPT !.Password = newPassword, !.Sessions = {key},
                  !.PasswordResetToken = NoToken]

ChangePasswordSet(w) ==
    /\ Free(w)
    /\ \E name \in ManagerNames, resetToken \in ResetKeys, newPassword \in NewPasswords :
        IF ChangePasswordErrors(name, resetToken) # {}
        THEN UNCHANGED <<users, at, req>>
        ELSE \E key \in ManagerKeys \ users[name].Sessions :
                /\ users' = [users EXCEPT ![name] = changePassword(@, newPassword, key)]
                /\ at' = [at EXCEPT ![w] = "ChangePassword:userModified"]
                /\ req' = [req EXCEPT ![w] =
                            [NoRequest EXCEPT !.name = name, !.password = newPassword,
                                              !.session = key]]
    /\ UNCHANGED <<EmailsToUserNames, userNameList, storage>>
    /\ UNCHANGED <<entryVars, credentialVars, lockVars>>

(***************************************************************************)
(* ChangePassword: userModified, and the return of the fresh session key,  *)
(* or of the error of userModified.                                        *)
(***************************************************************************)
ChangePasswordStore(w) ==
    /\ at[w] = "ChangePassword:userModified"
    /\ \/ storage' = userToStorage(req[w].name)
       \/ UNCHANGED storage
    /\ Finish(w)
    /\ UNCHANGED <<users, EmailsToUserNames, userNameList>>
    /\ UNCHANGED <<entryVars, credentialVars, lockVars>>

NextDirectory ==
    \E w \in Workers :
        \/ AddUserCheck(w)
        \/ AddUserPut(w)
        \/ AddUserEmail(w)
        \/ AddUserStore(w)
        \/ AddUserRecord(w)
        \/ NewCollectionAdd(w)
        \/ NewCollectionStore(w)
        \/ SetPermissions(w)
        \/ GetNewSessionCheck(w)
        \/ GetNewSessionAdd(w)

SpecDirectory == Init /\ [][NextDirectory]_vars

(***************************************************************************)
(* Registration alone: concurrent AddUser calls and the three locks.       *)
(***************************************************************************)
NextRegistration ==
    \E w \in Workers :
        \/ AddUserCheck(w)
        \/ AddUserLockUsers(w)
        \/ AddUserPutUnlock(w)
        \/ AddUserLockEmails(w)
        \/ AddUserEmailUnlock(w)
        \/ AddUserStore(w)
        \/ AddUserLockNames(w)
        \/ AddUserRecordUnlock(w)

SpecRegistration == Init /\ [][NextRegistration]_vars

(***************************************************************************)
(* The calls that make users and collections.                              *)
(***************************************************************************)
NextCollections ==
    \E w \in Workers :
        \/ AddUserCheck(w)
        \/ AddUserPut(w)
        \/ AddUserEmail(w)
        \/ AddUserStore(w)
        \/ AddUserRecord(w)
        \/ NewCollectionAdd(w)
        \/ NewCollectionStore(w)
        \/ SetPermissions(w)

SpecCollections == Init /\ [][NextCollections]_vars

(***************************************************************************)
(* The calls behind the authentication gate, and AddUser, which makes the  *)
(* users and their first sessions.                                         *)
(***************************************************************************)
NextGate ==
    \E w \in Workers :
        \/ AddUserCheck(w)
        \/ AddUserPut(w)
        \/ AddUserEmail(w)
        \/ AddUserStore(w)
        \/ AddUserRecord(w)
        \/ NewCollectionAdd(w)
        \/ NewCollectionStore(w)
        \/ SetPermissions(w)
        \/ AddTrade(w)

SpecGate == Init /\ [][NextGate]_vars

(***************************************************************************)
(* The calls that hand out sessions and change passwords.                  *)
(***************************************************************************)
NextPasswords ==
    \E w \in Workers :
        \/ AddUserCheck(w)
        \/ AddUserPut(w)
        \/ AddUserEmail(w)
        \/ AddUserStore(w)
        \/ AddUserRecord(w)
        \/ GetNewSessionCheck(w)
        \/ GetNewSessionAdd(w)
        \/ GetPasswordResetToken(w)
        \/ ChangePasswordSet(w)
        \/ ChangePasswordStore(w)

SpecPasswords == Init /\ [][NextPasswords]_vars

(***************************************************************************)
(* StateAt(owner, collection, time): the rows of the ledger of one         *)
(* collection that, within their identity key, carry the greatest          *)
(* lastUpdate not exceeding time.                                          *)
(***************************************************************************)
StateAt(owner, collection, time) ==
    LET h == collectionHistory
        AtOrBefore == {i \in DOMAIN h : /\ h[i].owner = owner
                                        /\ h[i].collection = collection
                                        /\ h[i].lastUpdate <= time}
    IN  {h[i] : i \in {i \in AtOrBefore :
                        \A j \in AtOrBefore :
                            ContentsKey(h[j]) = ContentsKey(h[i])
                                => h[j].lastUpdate <= h[i].lastUpdate}}

(***************************************************************************)
(* Vocabulary of the properties.                                           *)
(***************************************************************************)
Submitted(p) == pc[p] # "idle"
Returned(p) == pc[p] = "done"
Accepted(p) == pc[p] = "done" /\ result[p] = "ok"
Quiescent == \A p \in Calls : pc[p] \in {"idle", "done"}
CallsOn(k) == {p \in Calls : Submitted(p) /\ ContentsKey(args[p]) = k}
HistoryRowsOf(tbl, k) == {i \in DOMAIN tbl : ContentsKey(tbl[i]) = k}
Concurrent(p, q) == p \in inFlight[q] \/ q \in inFlight[p]
ReturnsOk(p) == pc[p] = "history" /\ pc'[p] = "done" /\ result'[p] = "ok"
WritesContents(p) == pc[p] \in {"update", "insert"} /\ pc'[p] = "history"
MaxOf(S) == CHOOSE m \in S : \A x \in S : x <= m
IsPrefix(s, t) == Len(s) <= Len(t) /\ SubSeq(t, 1, Len(s)) = s

(***************************************************************************)
(* C1, as stated: whenever ApplyEntry returns success, the content store   *)
(* holds a row of the call's identity key with exactly the call's comment, *)
(* quantity and timestamp, and the call has appended exactly one history   *)
(* row of that key and timestamp.                                          *)
(***************************************************************************)
C1_AsStated ==
    [][\A p \in Calls :
          ReturnsOk(p) =>
              /\ \E i \in DOMAIN collectionContents' : collectionContents'[i] = args[p]
              /\ collectionHistory' = Append(collectionHistory, args[p])
              /\ Cardinality({i \in DOMAIN collectionHistory' :
                                HistoryKey(collectionHistory'[i]) = HistoryKey(args[p])}) = 1
      ]_vars

(***************************************************************************)
(* C1, amended: the content write of a call leaves exactly one row of its  *)
(* identity key, holding exactly the call's comment, quantity and          *)
(* timestamp; when the call returns success a row of that key exists, and  *)
(* still holds exactly those values unless another call wrote the key in   *)
(* between; and the call has appended exactly one history row of that key  *)
(* and timestamp.                                                          *)
(***************************************************************************)
C1_ApplyEntryContract ==
    [][\A p \in Calls :
          /\ WritesContents(p) =>
                /\ RowsOf(collectionContents', ContentsKey(args[p])) # {}
                /\ \A i \in RowsOf(collectionContents', ContentsKey(args[p])) :
                        collectionContents'[i] = args[p]
          /\ ReturnsOk(p) =>
                /\ RowsOf(collectionContents', ContentsKey(args[p])) # {}
                /\ lastWriter'[ContentsKey(args[p])] = p =>
                        \A i \in RowsOf(collectionContents', ContentsKey(args[p])) :
                            collectionContents'[i] = args[p]
                /\ collectionHistory' = Append(collectionHistory, args[p])
                /\ Cardinality({i \in DOMAIN collectionHistory' :
                                  HistoryKey(collectionHistory'[i]) = HistoryKey(args[p])}) = 1
      ]_vars

C1_Witness ==
    \E p \in Calls :
        /\ Accepted(p)
        /\ retries[p] > 0
        /\ lastWriter[ContentsKey(args[p])] = p
        /\ \E i \in DOMAIN collectionContents : collectionContents[i] = args[p]
        /\ \E i \in DOMAIN collectionHistory : collectionHistory[i] = args[p]

(***************************************************************************)
(* C2: in every reachable state the content store holds at most one row    *)
(* per identity key.                                                       *)
(***************************************************************************)
C2_UniqueContents ==
    \A k \in IdentityKeys : Cardinality(RowsOf(collectionContents, k)) <= 1

C2_Witness ==
    \E p, q \in Calls :
        /\ p # q
        /\ ContentsKey(args[p]) = ContentsKey(args[q])
        /\ Concurrent(p, q)
        /\ retries[q] > 0
        /\ pc[p] \in {"history", "done"} /\ pc[q] \in {"history", "done"}
        /\ Cardinality(RowsOf(collectionContents, ContentsKey(args[p]))) = 1

(***************************************************************************)
(* C3, as stated: two concurrent calls, the only ones on an identity key   *)
(* that had no content row when they were submitted, both return success,  *)
(* and afterwards exactly one content row and exactly two history rows of  *)
(* the key exist.                                                          *)
(***************************************************************************)
C3_AsStated ==
    \A p, q \in Calls :
        (/\ p # q
         /\ ContentsKey(args[p]) = ContentsKey(args[q])
         /\ CallsOn(ContentsKey(args[p])) = {p, q}
         /\ Concurrent(p, q) /\ fresh[p] /\ fresh[q]
         /\ Returned(p) /\ Returned(q))
        => /\ result[p] = "ok" /\ result[q] = "ok"
           /\ Cardinality(RowsOf(collectionContents, ContentsKey(args[p]))) = 1
           /\ Cardinality(HistoryRowsOf(collectionHistory, ContentsKey(args[p]))) = 2

(***************************************************************************)
(* C3, amended: the same for two calls with distinct timestamps; the       *)
(* unique_violation of the losing INSERT is retried and not surfaced.      *)
(***************************************************************************)
C3_ConcurrentFirstInsert ==
    \A p, q \in Calls :
        (/\ p # q
         /\ ContentsKey(args[p]) = ContentsKey(args[q])
         /\ args[p].lastUpdate # args[q].lastUpdate
         /\ CallsOn(ContentsKey(args[p])) = {p, q}
         /\ Concurrent(p, q) /\ fresh[p] /\ fresh[q]
         /\ Returned(p) /\ Returned(q))
        => /\ result[p] = "ok" /\ result[q] = "ok"
           /\ Cardinality(RowsOf(collectionContents, ContentsKey(args[p]))) = 1
           /\ Cardinality(HistoryRowsOf(collectionHistory, ContentsKey(args[p]))) = 2

C3_Witness ==
    \E p, q \in Calls :
        /\ p # q
        /\ ContentsKey(args[p]) = ContentsKey(args[q])
        /\ args[p].lastUpdate # args[q].lastUpdate
        /\ CallsOn(ContentsKey(args[p])) = {p, q}
        /\ Concurrent(p, q) /\ fresh[p] /\ fresh[q]
        /\ retries[p] = 0 /\ retries[q] = 1
        /\ Accepted(p) /\ Accepted(q)

(***************************************************************************)
(* C4: for N concurrent calls on one identity key with pairwise distinct   *)
(* timestamps, once all have returned the content row's lastUpdate is the  *)
(* maximum of the timestamps and exactly N history rows of the key exist.  *)
(***************************************************************************)
C4_MaxTimestampWins ==
    \A S \in SUBSET Calls :
        (/\ Cardinality(S) >= 2
         /\ \A p \in S : Returned(p)
         /\ \A p, q \in S : p # q =>
                /\ ContentsKey(args[p]) = ContentsKey(args[q])
                /\ args[p].lastUpdate # args[q].lastUpdate
                /\ Concurrent(p, q)
         /\ \A p \in S : CallsOn(ContentsKey(args[p])) = S)
        => \A p \in S :
              /\ \A i \in RowsOf(collectionContents, ContentsKey(args[p])) :
                    collectionContents[i].lastUpdate =
                        MaxOf({args[q].lastUpdate : q \in S})
              /\ Cardinality(HistoryRowsOf(collectionHistory, ContentsKey(args[p])))
                    = Cardinality(S)

(***************************************************************************)
(* C5: within one identity key the content row holds the comment, quantity *)
(* and lastUpdate of the call whose content write was applied last, an     *)
(* overwrite and not an accumulation.  With quantity 4 at the first tick   *)
(* followed by quantity 1 at the second, quantity 1 and the second tick    *)
(* remain, beside two history rows.                                        *)
(***************************************************************************)
C5_LastAppliedWriteWins ==
    \A k \in IdentityKeys :
        IF lastWriter[k] = 0
        THEN RowsOf(collectionContents, k) = {}
        ELSE /\ RowsOf(collectionContents, k) # {}
             /\ \A i \in RowsOf(collectionContents, k) :
                    /\ collectionContents[i].comment = args[lastWriter[k]].comment
                    /\ collectionContents[i].quantity = args[lastWriter[k]].quantity
                    /\ collectionContents[i].lastUpdate = args[lastWriter[k]].lastUpdate

C5_Witness ==
    \E p, q \in Calls :
        /\ ContentsKey(args[p]) = ContentsKey(args[q])
        /\ args[p].quantity = 4 /\ args[p].lastUpdate = 1
        /\ args[q].quantity = 1 /\ args[q].lastUpdate = 2
        /\ q \notin inFlight[p] /\ p \notin inFlight[q]
        /\ Accepted(p) /\ Accepted(q)
        /\ lastWriter[ContentsKey(args[p])] = q
        /\ \E i \in DOMAIN collectionContents :
                /\ ContentsKey(collectionContents[i]) = ContentsKey(args[p])
                /\ collectionContents[i].quantity = 1
                /\ collectionContents[i].lastUpdate = 2
        /\ {collectionHistory[i].quantity :
                i \in HistoryRowsOf(collectionHistory, ContentsKey(args[p]))} = {1, 4}
        /\ Cardinality(HistoryRowsOf(collectionHistory, ContentsKey(args[p]))) = 2

(***************************************************************************)
(* C6: the ledger is append-only; every step leaves the rows it held in    *)
(* place and unchanged.                                                    *)
(***************************************************************************)
C6_AppendOnly == [][IsPrefix(collectionHistory, collectionHistory')]_vars

C6_Witness ==
    /\ Len(collectionHistory) >= 2
    /\ \E i, j \in DOMAIN collectionHistory :
            i < j /\ ContentsKey(collectionHistory[i]) = ContentsKey(collectionHistory[j])

(***************************************************************************)
(* C7: for every owner, collection and submitted timestamp T, StateAt      *)
(* returns for each identity key the values of the accepted call with the  *)
(* greatest timestamp not exceeding T, and nothing for a key without an    *)
(* accepted call at or before T.                                           *)
(***************************************************************************)
C7_StateAtReplaysAccepted ==
    \A o \in Owners, c \in CollectionNames :
        \A T \in {args[p].lastUpdate : p \in {p \in Calls : Submitted(p)}} :
            \A k \in IdentityKeys :
                LET A == {p \in Calls : /\ Accepted(p)
                                        /\ ContentsKey(args[p]) = k
                                        /\ args[p].owner = o
                                        /\ args[p].collection = c
                                        /\ args[p].lastUpdate <= T}
                    Got == {r \in StateAt(o, c, T) : ContentsKey(r) = k}
                IN  IF A = {}
                    THEN Got = {}
                    ELSE \E p \in A :
                            /\ \A q \in A : args[q].lastUpdate <= args[p].lastUpdate
                            /\ Got = {args[p]}

C7_Witness ==
    \E p, q \in Calls :
        /\ Accepted(p) /\ Accepted(q)
        /\ ContentsKey(args[p]) = ContentsKey(args[q])
        /\ args[p].lastUpdate = 1 /\ args[q].lastUpdate = 2
        /\ args[p].quantity # args[q].quantity
        /\ StateAt(args[p].owner, args[p].collection, 1) = {args[p]}
        /\ StateAt(args[p].owner, args[p].collection, 2) = {args[q]}

(***************************************************************************)
(* C8: whenever no ApplyEntry call is in progress, the content row of      *)
(* every identity key equals the history row of that key with the          *)
(* greatest timestamp.  Stated for the runs in which every submitted call  *)
(* was accepted, which is where the code departs from it.                  *)
(***************************************************************************)
C8_ContentsRecoverable ==
    (Quiescent /\ \A p \in Calls : Submitted(p) => Accepted(p))
    => \A k \in IdentityKeys :
          \A i \in RowsOf(collectionContents, k) :
              /\ HistoryRowsOf(collectionHistory, k) # {}
              /\ \A j \in HistoryRowsOf(collectionHistory, k) :
                    (\A l \in HistoryRowsOf(collectionHistory, k) :
                        collectionHistory[l].lastUpdate <= collectionHistory[j].lastUpdate)
                    => collectionContents[i] = collectionHistory[j]

(***************************************************************************)
(* Vocabulary of the credential properties.                                *)
(***************************************************************************)
SessionRows(name, key) ==
    {i \in DOMAIN sessions : sessions[i].name = name /\ sessions[i].sessionKey = key}
IssuedTo(name, key) == {i \in issued : i.name = name /\ i.key = key}

(***************************************************************************)
(* C9: the key AddSession returns for a valid user name authenticates      *)
(* with SessionAuth while its window is open, and after Logout with that   *)
(* name and key every SessionAuth with them fails.                         *)
(***************************************************************************)
C9_SessionRoundTrip ==
    \A i \in issued :
        /\ ephemeralName(i.name)
        /\ (/\ <<i.name, i.key>> \notin loggedOut
            /\ i.at <= now /\ now < i.at + SessionHorizon)
           => SessionAuth(i.name, i.key)
        /\ <<i.name, i.key>> \in loggedOut => ~SessionAuth(i.name, i.key)

C9_Witness ==
    \E i \in issued :
        /\ lastAuth = [name |-> i.name, key |-> i.key, ok |-> TRUE]
        /\ <<i.name, i.key>> \in loggedOut
        /\ now < i.at + SessionHorizon
        /\ ~SessionAuth(i.name, i.key)
        /\ \E j \in issued : j.name = i.name /\ j.key # i.key /\ SessionAuth(j.name, j.key)

(***************************************************************************)
(* C10: SessionAuth succeeds if and only if exactly one session row        *)
(* matches the name and key and that row has startValid <= now < endValid; *)
(* it fails once now has reached endValid, for a key issued to another     *)
(* user only, and for a key never issued.  Every SessionAuth call returns  *)
(* that outcome.                                                           *)
(***************************************************************************)
C10_SessionAuthExact ==
    /\ [](\A name \in UserNames, key \in SessionKeys :
            /\ SessionAuth(name, key)
                <=> /\ Cardinality(SessionRows(name, key)) = 1
                    /\ \A i \in SessionRows(name, key) :
                            sessions[i].startValid <= now /\ now < sessions[i].endValid
            /\ (\E i \in SessionRows(name, key) : now >= sessions[i].endValid)
                => ~SessionAuth(name, key)
            /\ IssuedTo(name, key) = {} => ~SessionAuth(name, key))
    /\ [][\A name \in UserNames, key \in SessionKeys :
            (lastAuth' # lastAuth /\ lastAuth'.name = name /\ lastAuth'.key = key)
            => (lastAuth'.ok
                <=> /\ Cardinality(SessionRows(name, key)) = 1
                    /\ \A i \in SessionRows(name, key) :
                            sessions[i].startValid <= now /\ now < sessions[i].endValid)
       ]_vars

C10_Witness ==
    \E i, j \in issued :
        /\ i.name # j.name /\ i.key # j.key
        /\ IssuedTo(j.name, i.key) = {}
        /\ <<i.name, i.key>> \notin loggedOut
        /\ now = i.at + SessionHorizon
        /\ lastAuth = [name |-> i.name, key |-> i.key, ok |-> FALSE]
        /\ ~SessionAuth(i.name, i.key)
        /\ SessionAuth(j.name, j.key)
        /\ ~SessionAuth(j.name, i.key)

(***************************************************************************)
(* C11: Logout is idempotent.  A Logout on a session that is already       *)
(* logged out or expired completes and leaves the session row as it is,    *)
(* and no step moves the endValid of a session row to a later time.        *)
(***************************************************************************)
C11_LogoutIdempotent ==
    /\ [](\A i \in DOMAIN sessions :
            sessions[i].endValid <= now
            => ENABLED (/\ Logout(sessions[i].name, sessions[i].sessionKey)
                        /\ sessions' = sessions))
    /\ [][\A i \in DOMAIN sessions :
            /\ i \in DOMAIN sessions'
            /\ sessions'[i].endValid <= sessions[i].endValid
            /\ sessions[i].endValid <= now => sessions'[i] = sessions[i]
       ]_vars

C11_Witness ==
    \E i \in DOMAIN sessions :
        /\ <<sessions[i].name, sessions[i].sessionKey>> \in loggedOut
        /\ sessions[i].endValid < sessions[i].startValid + SessionHorizon
        /\ sessions[i].endValid < now
        /\ \E j \in DOMAIN sessions :
                /\ sessions[j].endValid = sessions[j].startValid + SessionHorizon
                /\ sessions[j].endValid <= now

TooLong(name) == TextLength(name) >= ephemeralNameLimit

(***************************************************************************)
(* C12: for a user name beyond the length bound AddSession and             *)
(* RequestReset both fail with InvalidField, and neither users.sessions    *)
(* nor users.resets changes: no row and no returned key ever carries such  *)
(* a name, and the step that refuses the name leaves both tables as they   *)
(* were.                                                                   *)
(***************************************************************************)
C12_LongNamesRefused ==
    /\ [](/\ \A i \in DOMAIN sessions : ~TooLong(sessions[i].name)
          /\ \A i \in DOMAIN resets : ~TooLong(resets[i].name)
          /\ \A i \in issued \cup resetIssued : ~TooLong(i.name)
          /\ \A name \in UserNames :
                TooLong(name)
                => /\ ENABLED (/\ AddSession(name)
                               /\ Refusal("AddSession", name, "InvalidField") \in refused')
                   /\ ENABLED (/\ RequestReset(name)
                               /\ Refusal("RequestReset", name, "InvalidField") \in refused'))
    /\ [][\A r \in refused' \ refused :
                TooLong(r.name)
                => /\ r.error = "InvalidField"
                   /\ sessions' = sessions /\ issued' = issued
                   /\ resets' = resets /\ resetIssued' = resetIssued
       ]_vars

C12_Witness ==
    /\ \E name \in UserNames :
            /\ TooLong(name)
            /\ Refusal("AddSession", name, "InvalidField") \in refused
            /\ Refusal("RequestReset", name, "InvalidField") \in refused
    /\ sessions # <<>>
    /\ resets # <<>>

(***************************************************************************)
(* C13, as stated: AddSession inserts no session row for a name that has   *)
(* no row in users.meta.                                                   *)
(***************************************************************************)
C13_AsStated ==
    [][\A i \in DOMAIN sessions' \ DOMAIN sessions : sessions'[i].name \in meta]_vars

(***************************************************************************)
(* C13, amended: AddSession does not consult users.meta.  It is never      *)
(* refused for an unknown user, and for every name within the length       *)
(* bound, registered or not, it inserts a session row while the table has  *)
(* room and the generator has a key left that the name does not hold.      *)
(***************************************************************************)
C13_AddSessionIgnoresMeta ==
    /\ \A r \in refused : r.error = "InvalidField" /\ ~ephemeralName(r.name)
    /\ \A name \in UserNames :
            (/\ ephemeralName(name)
             /\ Len(sessions) < MaxSessions
             /\ \E key \in SessionKeys : SessionRows(name, key) = {})
            => ENABLED (/\ AddSession(name)
                        /\ Len(sessions') = Len(sessions) + 1
                        /\ sessions'[Len(sessions')].name = name)

C13_Witness ==
    /\ \E i \in issued : i.name \notin meta
    /\ \E i \in issued : i.name \in meta
    /\ \E r \in refused : r.op = "AddSession"

(***************************************************************************)
(* Vocabulary of the reset properties.                                     *)
(***************************************************************************)
Unspent(i) == validated[<<i.name, i.key>>] = 0

(***************************************************************************)
(* C14: a token RequestReset returned validates on the first               *)
(* ValidateReset made while its window is open, from the moment of         *)
(* issuance on: its row has startValid <= now < endValid, not the window   *)
(* of the column defaults, which has ended before it starts.               *)
(***************************************************************************)
C14_IssuedTokenValidates ==
    \A i \in resetIssued :
        (Unspent(i) /\ i.at <= now /\ now < i.at + ResetHorizon)
        => /\ ResetValid(i.name, i.key)
           /\ \E j \in DOMAIN resets :
                    /\ resets[j].name = i.name /\ resets[j].resetKey = i.key
                    /\ resets[j].startValid <= now /\ now < resets[j].endValid
                    /\ resets[j].startValid < resets[j].endValid
           /\ ENABLED (/\ ValidateResetCall(i.name, i.key)
                       /\ validated'[<<i.name, i.key>>] = 1)

C14_Witness ==
    \E i, j \in resetIssued :
        /\ i.at = now /\ ~Unspent(i)
        /\ j.at < now /\ Unspent(j) /\ ResetValid(j.name, j.key)

EnumsValid(a) == a.quality \in PossibleQualities /\ a.lang \in PossibleLanguages
LongestText(a) == MaxOf({TextLength(text) : text \in TextFields(a)})
Rejected(p) == pc[p] = "done" /\ result[p] = "InvalidField"
Returns(p) == pc[p] # "done" /\ pc'[p] = "done"

(***************************************************************************)
(* C16: an ApplyEntry whose quality is none of NM, LP, HP or whose         *)
(* language is outside the fixed set is rejected with InvalidField, and    *)
(* the step that rejects it changes neither the content store nor the      *)
(* history; no row of either ever carries such a value.                    *)
(***************************************************************************)
C16_EnumsRejected ==
    /\ [](/\ \A p \in Calls : (Submitted(p) /\ ~EnumsValid(args[p])) => Rejected(p)
          /\ \A i \in DOMAIN collectionContents : EnumsValid(collectionContents[i])
          /\ \A i \in DOMAIN collectionHistory : EnumsValid(collectionHistory[i]))
    /\ [][\A p \in Calls :
            (Returns(p) /\ ~EnumsValid(args'[p]))
            => /\ result'[p] = "InvalidField"
               /\ UNCHANGED <<collectionContents, collectionHistory>>
       ]_vars

C16_Witness ==
    \E p, q \in Calls :
        /\ Rejected(p) /\ args[p].quality \notin PossibleQualities
        /\ Rejected(q) /\ args[q].lang \notin PossibleLanguages

(***************************************************************************)
(* C17, as stated: an ApplyEntry with valid enumerations whose text fields *)
(* all have length <= 280 is not rejected.                                 *)
(***************************************************************************)
C17_AsStated ==
    \A p \in Calls :
        (Returned(p) /\ EnumsValid(args[p]) /\ LongestText(args[p]) <= standardTextLimit)
        => result[p] # "InvalidField"

(***************************************************************************)
(* C17, amended: the bound is 280 exclusive.  An ApplyEntry with valid     *)
(* enumerations is rejected with InvalidField exactly when one of owner,   *)
(* collection, cardName, setName and comment has length 280 or more, the   *)
(* step that rejects it writes nothing, and an entry whose text fields are *)
(* all shorter than 280, 279 included, gets its content write.             *)
(***************************************************************************)
C17_Below280 ==
    /\ [](/\ \A p \in Calls :
                (Returned(p) /\ EnumsValid(args[p]))
                => (result[p] = "InvalidField"
                    <=> LongestText(args[p]) >= standardTextLimit)
          /\ \A i \in DOMAIN collectionContents :
                LongestText(collectionContents[i]) < standardTextLimit
          /\ \A i \in DOMAIN collectionHistory :
                LongestText(collectionHistory[i]) < standardTextLimit)
    /\ [][\A p \in Calls :
            (Returns(p) /\ LongestText(args[p]) >= standardTextLimit)
            => /\ result'[p] = "InvalidField"
               /\ UNCHANGED <<collectionContents, collectionHistory>>
       ]_vars

C17_Witness ==
    \E p, q \in Calls :
        /\ Accepted(p) /\ TextLength(args[p].comment) = standardTextLimit - 1
        /\ \E i \in DOMAIN collectionContents : collectionContents[i] = args[p]
        /\ Rejected(q) /\ EnumsValid(args[q])
        /\ TextLength(args[q].comment) = standardTextLimit
        /\ ContentsKey(args[q]) = ContentsKey(args[p])

(***************************************************************************)
(* Vocabulary of the directory properties.                                 *)
(***************************************************************************)
Held(name) == DOMAIN users[name].Collections
AtLimit(name) == Cardinality(Held(name)) >= users[name].MaxCollections
StartsNewCollection(w) == at[w] = "idle" /\ at'[w] = "NewCollection:userModified"
ReturnsNewCollection(w) == at[w] = "NewCollection:userModified" /\ at'[w] = "idle"

C20_WriteThrough ==
    [][/\ \A w \in Workers :
            (/\ ReturnsNewCollection(w)
             /\ req[w].collName \in DOMAIN users'[req[w].name].Collections)
            => /\ req[w].name \in DOMAIN storage'
               /\ req[w].collName \in DOMAIN storage'[req[w].name].Collections
       /\ \A w \in Workers :
            (at[w] = "GetNewSession:getNewSession" /\ at'[w] = "idle")
            => \A key \in users'[req[w].name].Sessions \ users[req[w].name].Sessions :
                    /\ req[w].name \in DOMAIN storage'
                    /\ key \in storage'[req[w].name].Sessions
      ]_vars

(***************************************************************************)
(* Vocabulary of the registration properties.                              *)
(***************************************************************************)
AddUserFails(w) == at[w] = "AddUser:store" /\ at'[w] = "idle"
AddUserPuts(w) == at[w] = "AddUser:users" /\ at'[w] = "AddUser:email"
Created(name) == \E i \in DOMAIN userNameList : userNameList[i] = name

(***************************************************************************)
(* C21: when AddUser returns the error of userToStorage, the name-indexed  *)
(* map holds no User of the name that persistent storage lacks, and the    *)
(* email-indexed map holds no entry of the email whose user persistent     *)
(* storage lacks.                                                          *)
(***************************************************************************)
C21_FailedAddUserLeavesNoEntry ==
    [][\A w \in Workers :
          AddUserFails(w)
          => /\ req[w].name \in DOMAIN users' => req[w].name \in DOMAIN storage'
             /\ req[w].email \in DOMAIN EmailsToUserNames'
                    => EmailsToUserNames'[req[w].email] \in DOMAIN storage'
      ]_vars

(***************************************************************************)
(* C22: no name is recorded twice as created, that is, of the AddUser      *)
(* calls of one name at most one returns success; and no AddUser puts a    *)
(* fresh User in the place of the User of a name that was created.         *)
(***************************************************************************)
C22_UniqueRegistration ==
    /\ [](\A i, j \in DOMAIN userNameList :
                userNameList[i] = userNameList[j] => i = j)
    /\ [][\A w \in Workers : AddUserPuts(w) => ~Created(req[w].name)]_vars

(***************************************************************************)
(* Vocabulary of the gate property.                                        *)
(***************************************************************************)
ValidKey(name, session) == name \in DOMAIN users /\ session \in users[name].Sessions

(***************************************************************************)
(* C23: NewCollection, SetPermissions and AddTrade called with a session   *)
(* key that is not a session of the named user, the public session key     *)
(* included, return an error, and the step of such a call changes nothing  *)
(* in memory and nothing in persistent storage.                            *)
(***************************************************************************)
C23_AuthenticationGate ==
    \A name \in ManagerNames, collName \in ManagerCollections, session \in SessionArgs :
        ~ValidKey(name, session)
        => /\ NewCollectionErrors(name, collName, session) = {"InvalidCredential"}
           /\ SetPermissionsErrors(name, collName, session) = {"InvalidCredential"}
           /\ AddTradeErrors(name, collName, session) = {"InvalidCredential"}
           /\ \A w \in Workers :
                Free(w)
                => /\ ~ENABLED (/\ NewCollectionCall(w, name, collName, session)
                                /\ directoryVars' # directoryVars)
                   /\ \A permissions \in PermissionArgs :
                        ~ENABLED (/\ SetPermissionsCall(w, name, collName, session,
                                                        permissions)
                                 /\ directoryVars' # directoryVars)
                   /\ \A aTrade \in Trades :
                        ~ENABLED (/\ AddTradeCall(w, name, collName, session, aTrade)
                                 /\ directoryVars' # directoryVars)

C23_Witness ==
    \E name \in DOMAIN users, collName \in ManagerCollections :
        /\ collName \in DOMAIN users[name].Collections
        /\ users[name].Collections[collName].trades # <<>>
        /\ users[name].Collections[collName].permissions # BlankCollection.permissions
        /\ name \in DOMAIN storage
        /\ storage[name] = users[name]
        /\ \E session \in ManagerKeys : ~ValidKey(name, session)
        /\ ~ValidKey(name, PublicSessionKey)

(***************************************************************************)
(* Vocabulary of the password properties.                                  *)
(***************************************************************************)
ChangesPassword(w) == at[w] = "idle" /\ at'[w] = "ChangePassword:userModified"
AddsSession(w) == at[w] = "GetNewSession:getNewSession" /\ at'[w] = "idle"

(***************************************************************************)
(* C24: the changePassword of a successful ChangePassword leaves the fresh *)
(* key as the only session of the user, none of the keys the user held     *)
(* before among them, and from then on no login that presented the         *)
(* password of before the change is handed a session of the user.          *)
(***************************************************************************)
C24_OnlyTheFreshKey ==
    [][\A w \in Workers :
          /\ ChangesPassword(w)
             => /\ users'[req'[w].name].Sessions = {req'[w].session}
                /\ req'[w].session \notin users[req'[w].name].Sessions
          /\ AddsSession(w)
             => users[req[w].name].Password = req[w].password
      ]_vars

(***************************************************************************)
(* C25: a caller cannot tell an unknown name from a known name with a      *)
(* wrong credential: GetNewSession with a password that is not the known   *)
(* user's returns for the unknown name the error it returns for the known  *)
(* one, and so does ChangePassword with a reset token the known user does  *)
(* not hold.                                                               *)
(***************************************************************************)
C25_UndifferentiatedErrors ==
    \A unknown \in ManagerNames, known \in ManagerNames :
        (~userExists(unknown) /\ userExists(known))
        => /\ \A password \in Passwords :
                users[known].Password # password
                => GetNewSessionErrors(unknown, password)
                        = GetNewSessionErrors(known, password)
           /\ \A resetToken \in ResetKeys :
                ChangePasswordErrors(known, resetToken) # {}
                => ChangePasswordErrors(unknown, resetToken)
                        = ChangePasswordErrors(known, resetToken)

C27_HistoryOncePerCall ==
    /\ [](Len(collectionHistory) = Cardinality({p \in Calls : Accepted(p)}))
    /\ [](\A i \in DOMAIN collectionHistory :
            \E p \in Calls :
                /\ Accepted(p)
                /\ args[p] = collectionHistory[i]
                /\ RowsOf(collectionContents, ContentsKey(args[p])) # {})
    /\ [](\A p \in Calls :
            Accepted(p)
            => Cardinality({i \in DOMAIN collectionHistory :
                                collectionHistory[i] = args[p]}) = 1)
    /\ [][collectionHistory' # collectionHistory
          => \E p \in Calls :
                /\ pc[p] = "history"
                /\ RowsOf(collectionContents, ContentsKey(args[p])) # {}
                /\ collectionHistory' = Append(collectionHistory, args[p])
       ]_vars

C27_Witness ==
    \E p \in Calls, q \in Calls :
        /\ p # q
        /\ Accepted(p) /\ retries[p] = 1
        /\ Accepted(q) /\ ContentsKey(args[q]) = ContentsKey(args[p])
        /\ Len(collectionHistory) = 2
        /\ Cardinality({i \in DOMAIN collectionHistory :
                            collectionHistory[i] = args[p]}) = 1

Acquires(lock, w) == lock # w /\ lock' = w
Proceeds(w) ==
    \/ AddUserLockUsers(w)
    \/ AddUserPutUnlock(w)
    \/ AddUserLockEmails(w)
    \/ AddUserEmailUnlock(w)
    \/ AddUserStore(w)
    \/ AddUserLockNames(w)
    \/ AddUserRecordUnlock(w)

(***************************************************************************)
(* C29: the locks are taken in the order userLock, emailLock, nameLock: a  *)
(* worker that takes userLock holds neither emailLock nor nameLock, and a  *)
(* worker that takes emailLock does not hold nameLock; a lock is held by   *)
(* a worker that is inside the call that took it; and concurrent AddUser   *)
(* calls never deadlock: while some call is in progress, some call in      *)
(* progress can take its next step.                                        *)
(***************************************************************************)
C29_LockOrder ==
    /\ [][\A w \in Workers :
            /\ Acquires(userLock, w) => (emailLock # w /\ nameLock # w)
            /\ Acquires(emailLock, w) => nameLock # w
       ]_vars
    /\ [](\A w \in Workers :
            (userLock = w \/ emailLock = w \/ nameLock = w) => at[w] # "idle")
    /\ []((\E w \in Workers : at[w] # "idle")
            => ENABLED (\E w \in Workers : Proceeds(w)))

C29_Witness ==
    \E w \in Workers, v \in Workers :
        /\ emailLock = w /\ at[w] = "AddUser:email"
        /\ userLock = v /\ at[v] = "AddUser:users"
        /\ req[w].name = req[v].name

(***************************************************************************)
(* Vocabulary of the sweep property.                                       *)
(***************************************************************************)
SweepsSessions == Len(sessions') < Len(sessions)
SweepsResets == Len(resets') < Len(resets) /\ validated' = validated
LaterTimes == now .. (MaxNow + SessionHorizon + ResetHorizon)
Removed(tbl, kept) ==
    {i \in DOMAIN tbl : \A j \in DOMAIN kept : kept[j] # tbl[i]}

(***************************************************************************)
(* C30: a sweep, wherever it falls among the other operations, removes     *)
(* only rows that are within their window neither now nor at any later     *)
(* time, leaves every other row as it was, and changes the outcome of no   *)
(* SessionAuth and of no ValidateReset.                                    *)
(***************************************************************************)
C30_SweepIsSafe ==
    [][/\ SweepsSessions
          => /\ \A i \in Removed(sessions, sessions') :
                    \A t \in LaterTimes : ~InWindow(sessions[i], t)
             /\ sessions' = SelectSeq(sessions,
                                LAMBDA r : \E j \in DOMAIN sessions' : sessions'[j] = r)
             /\ \A name \in UserNames, key \in SessionKeys :
                    SessionAuth(name, key)' = SessionAuth(name, key)
       /\ SweepsResets
          => /\ \A i \in Removed(resets, resets') :
                    \A t \in LaterTimes : ~InWindow(resets[i], t)
             /\ resets' = SelectSeq(resets,
                                LAMBDA r : \E j \in DOMAIN resets' : resets'[j] = r)
             /\ \A name \in UserNames, key \in ResetKeys :
                    ResetValid(name, key)' = ResetValid(name, key)
      ]_vars

C30_Witness ==
    /\ \E i \in issued :
            /\ SessionRows(i.name, i.key) = {}
            /\ \E j \in issued : SessionAuth(j.name, j.key)
    /\ \E i \in resetIssued :
            /\ validated[<<i.name, i.key>>] = 0
            /\ \A r \in DOMAIN resets : resets[r].resetKey # i.key \/ resets[r].name # i.name
            /\ \E j \in resetIssued : ResetValid(j.name, j.key)

====
